---- MODULE Spec2Model ----
(***************************************************************************)
(* Model of the clean-url engine (src/utils/clean-url-logic.ts): the       *)
(* Tracking Pattern Table, isValidUrl, cleanHashFragment, cleanUrl,        *)
(* cleanUrls and analyzeUrl,                                               *)
(* together with the parts of the platform they call (the URL parser and   *)
(* serializer, URLSearchParams, decodeURIComponent, String.prototype.trim  *)
(* and toLowerCase).  Spec is the engine called from outside.              *)
(*                                                                         *)
(* WorkerSpec is the extension's background service worker: the browser's  *)
(* events, the handlers they start and the points where a handler is       *)
(* suspended at an await and resumes later.                                *)
(*                                                                         *)
(* A JavaScript string is a TLA+ string in the state and a sequence of     *)
(* one-character strings inside the operators.  The platform operators     *)
(* are modelled for printable ASCII text, for the schemes http, https,     *)
(* ftp, ws, wss and for non-special schemes, for hosts that are domain     *)
(* names without an all-digit last label, and for paths without "." or     *)
(* ".." segments; DomainOK checks that every generated input stays there.  *)
(***************************************************************************)
EXTENDS Integers, Sequences, FiniteSets, TLC

VARIABLES input, pc, result, again, returnedHash, analysis, urls, results,
          thrown, valid, paddedInput, padded, repeat, patterns,
          tabUrl, loading, badgeText, badgeColor, pending, storage, response,
          events

\* The state of the calls made to the engine.
engineVars == <<input, pc, result, again, returnedHash, analysis, urls, results,
                thrown, valid, paddedInput, padded, repeat>>

\* The state of the browser and of the background service worker.
workerVars == <<tabUrl, loading, badgeText, badgeColor, pending, storage,
                response, events>>

vars == <<engineVars, patterns, workerVars>>

----------------------------------------------------------------------------
(* Strings and characters                                                  *)

S(s) == [i \in 1..Len(s) |-> SubSeq(s, i, i)]

\* The string of a sequence of characters, joined half by half.
RECURSIVE Str(_)
Str(cs) ==
  IF Len(cs) = 0 THEN ""
  ELSE IF Len(cs) = 1 THEN cs[1]
  ELSE Str(SubSeq(cs, 1, Len(cs) \div 2)) \o Str(SubSeq(cs, (Len(cs) \div 2) + 1, Len(cs)))

CharsOf(s) == {SubSeq(s, i, i) : i \in 1..Len(s)}

\* Code points 32..126 in order: Ascii[i] is the character of code i + 31.
\* (A TLA+ string cannot hold the grave accent, code 96: it is the one
\* character written as a word.)
Ascii ==
  S(" !\"#$%&'()*+,-./0123456789:;<=>?@ABCDEFGHIJKLMNOPQRSTUVWXYZ[\\]^_")
    \o <<"GRAVE">> \o S("abcdefghijklmnopqrstuvwxyz{|}~")

AsciiSet == {Ascii[i] : i \in 1..Len(Ascii)}

CodeOf == [c \in AsciiSet |-> 31 + (CHOOSE i \in 1..Len(Ascii) : Ascii[i] = c)]

CharOf(n) == Ascii[n - 31]

UpperAlpha == CharsOf("ABCDEFGHIJKLMNOPQRSTUVWXYZ")

LowerAlpha == CharsOf("abcdefghijklmnopqrstuvwxyz")

Digits == CharsOf("0123456789")

Alpha == UpperAlpha \cup LowerAlpha

AlphaNum == Alpha \cup Digits

HexDigits == Digits \cup CharsOf("ABCDEFabcdef")

HexSeq == S("0123456789ABCDEF")

LowerChar(c) == IF c \in UpperAlpha THEN CharOf(CodeOf[c] + 32) ELSE c

UpperChar(c) == IF c \in LowerAlpha THEN CharOf(CodeOf[c] - 32) ELSE c

HexVal(c) == (CHOOSE i \in 1..16 : HexSeq[i] = UpperChar(c)) - 1

\* String.prototype.toLowerCase, on ASCII text.
toLowerCase(cs) == [i \in 1..Len(cs) |-> LowerChar(cs[i])]

\* String.prototype.indexOf for one character: 0 when absent, else the
\* 1-based position of the first occurrence.
IndexOf(cs, c) ==
  IF \E i \in 1..Len(cs) : cs[i] = c
  THEN CHOOSE i \in 1..Len(cs) : cs[i] = c /\ \A j \in 1..(i - 1) : cs[j] # c
  ELSE 0

\* The first position holding a character of set cset, or 0.
IndexOfAny(cs, cset) ==
  IF \E i \in 1..Len(cs) : cs[i] \in cset
  THEN CHOOSE i \in 1..Len(cs) : cs[i] \in cset /\ \A j \in 1..(i - 1) : cs[j] \notin cset
  ELSE 0

DropFirst(cs, n) == SubSeq(cs, n + 1, Len(cs))

startsWith(cs, pre) == Len(cs) >= Len(pre) /\ SubSeq(cs, 1, Len(pre)) = pre

includes(cs, sub) ==
  \E i \in 1..(Len(cs) - Len(sub) + 1) : SubSeq(cs, i, i + Len(sub) - 1) = sub

RECURSIVE Split(_, _)
Split(cs, sep) ==
  LET i == IndexOf(cs, sep)
  IN  IF i = 0 THEN <<cs>>
      ELSE <<SubSeq(cs, 1, i - 1)>> \o Split(DropFirst(cs, i), sep)

\* The concatenation of a sequence of sequences, joined half by half.
RECURSIVE Flatten(_)
Flatten(parts) ==
  IF Len(parts) = 0 THEN <<>>
  ELSE IF Len(parts) = 1 THEN parts[1]
  ELSE Flatten(SubSeq(parts, 1, Len(parts) \div 2))
         \o Flatten(SubSeq(parts, (Len(parts) \div 2) + 1, Len(parts)))

JoinWith(parts, sep) ==
  IF Len(parts) = 0 THEN <<>>
  ELSE Flatten([i \in 1..(2 * Len(parts) - 1) |->
                  IF i % 2 = 1 THEN parts[(i + 1) \div 2] ELSE <<sep>>])

SelectSeqOf(seq, keep) ==
  IF Len(seq) = 0 THEN <<>>
  ELSE Flatten([i \in 1..Len(seq) |-> IF seq[i] \in keep THEN <<seq[i]>> ELSE <<>>])

\* String.prototype.trim: the model's only whitespace is the space.
trim(cs) ==
  IF \A i \in 1..Len(cs) : cs[i] = " " THEN <<>>
  ELSE LET a == CHOOSE i \in 1..Len(cs) : cs[i] # " " /\ \A j \in 1..(i - 1) : cs[j] = " "
           b == CHOOSE i \in 1..Len(cs) : cs[i] # " " /\ \A j \in (i + 1)..Len(cs) : cs[j] = " "
       IN  SubSeq(cs, a, b)

----------------------------------------------------------------------------
(* Percent-encoding                                                        *)

PercentEncodeChar(c) ==
  <<"%", HexSeq[(CodeOf[c] \div 16) + 1], HexSeq[(CodeOf[c] % 16) + 1]>>

\* A "%" at position i followed by two hex digits.
IsEscapeAt(cs, i) ==
  /\ cs[i] = "%"
  /\ i + 2 <= Len(cs)
  /\ cs[i + 1] \in HexDigits
  /\ cs[i + 2] \in HexDigits

EscapeByte(cs, i) == 16 * HexVal(cs[i + 1]) + HexVal(cs[i + 2])

\* The bytes the model can represent as characters.
IsPrintableByte(n) == n >= 32 /\ n <= 126

\* The positions of the escapes that stand for a character of the model.
\* The two characters after the "%" are hex digits, so no two escapes overlap.
EscapeStarts(cs) ==
  {i \in 1..Len(cs) : IsEscapeAt(cs, i) /\ IsPrintableByte(EscapeByte(cs, i))}

\* What position i of cs contributes to the decoded text: the character of
\* the escape that starts there, nothing for the two hex digits of an escape,
\* and the character itself anywhere else.
DecodedAt(cs, i, starts) ==
  IF i \in starts THEN <<CharOf(EscapeByte(cs, i))>>
  ELSE IF (i - 1) \in starts \/ (i - 2) \in starts THEN <<>>
  ELSE <<cs[i]>>

DecodeEscapes(cs, starts) ==
  IF Len(cs) = 0 THEN <<>>
  ELSE Flatten([i \in 1..Len(cs) |-> DecodedAt(cs, i, starts)])

\* "percent-decode" of the URL standard, as URLSearchParams applies it: a
\* "%" that does not start an escape is kept as it is.
PercentDecode(cs) == DecodeEscapes(cs, EscapeStarts(cs))

DecodeOrThrow(cs, starts) ==
  IF \A i \in 1..Len(cs) : cs[i] = "%" => i \in starts
  THEN [ok |-> TRUE, v |-> DecodeEscapes(cs, starts)]
  ELSE [ok |-> FALSE, v |-> <<>>]

\* decodeURIComponent: a "%" that does not start an escape, or an escape
\* that is no UTF-8 text on its own (a byte above 127), throws URIError.
decodeURIComponent(cs) == DecodeOrThrow(cs, EscapeStarts(cs))

\* Percent-encode every character of cs that is in encodeSet.
PercentEncode(cs, encodeSet) ==
  Flatten([i \in 1..Len(cs) |->
             IF cs[i] \in encodeSet THEN PercentEncodeChar(cs[i]) ELSE <<cs[i]>>])

FragmentEncodeSet == CharsOf(" \"<>") \cup {"GRAVE"}

QueryEncodeSet == CharsOf(" \"#<>")

SpecialQueryEncodeSet == QueryEncodeSet \cup {"'"}

PathEncodeSet == QueryEncodeSet \cup CharsOf("?^{}") \cup {"GRAVE"}

\* application/x-www-form-urlencoded leaves only these unescaped.
FormUrlencodedSafe == AlphaNum \cup CharsOf("*-._")

----------------------------------------------------------------------------
(* URLSearchParams                                                         *)

PlusToSpace(cs) == [i \in 1..Len(cs) |-> IF cs[i] = "+" THEN " " ELSE cs[i]]

\* One "name=value" piece of an application/x-www-form-urlencoded string:
\* split at the first "=", "+" is a space, then percent-decode.
ParsePair(piece) ==
  LET i == IndexOf(piece, "=")
      name == IF i = 0 THEN piece ELSE SubSeq(piece, 1, i - 1)
      val  == IF i = 0 THEN <<>> ELSE DropFirst(piece, i)
  IN  [key |-> PercentDecode(PlusToSpace(name)), value |-> PercentDecode(PlusToSpace(val))]

\* new URLSearchParams(init) for a string: a leading "?" is dropped, the
\* rest is split at "&", empty pieces are skipped.  The value is the list
\* of (key, value) pairs that entries() iterates.
URLSearchParams(init) ==
  LET body   == IF startsWith(init, <<"?">>) THEN Tail(init) ELSE init
      pieces == SelectSeq(Split(body, "&"), LAMBDA piece : piece # <<>>)
  IN  [i \in 1..Len(pieces) |-> ParsePair(pieces[i])]

FormEncode(cs) ==
  Flatten([i \in 1..Len(cs) |->
             IF cs[i] = " " THEN <<"+">>
             ELSE IF cs[i] \in FormUrlencodedSafe THEN <<cs[i]>>
             ELSE PercentEncodeChar(cs[i])])

\* URLSearchParams.prototype.toString: the application/x-www-form-urlencoded
\* serializer.
URLSearchParams_toString(params) ==
  JoinWith([i \in 1..Len(params) |->
              FormEncode(params[i].key) \o <<"=">> \o FormEncode(params[i].value)], "&")

----------------------------------------------------------------------------
(* The URL parser and serializer (new URL, href, origin, pathname, search, *)
(* hash and the search and hash setters)                                   *)

SpecialSchemes == {S("http"), S("https"), S("ftp"), S("ws"), S("wss")}

DefaultPort(scheme) ==
  IF scheme \in {S("http"), S("ws")} THEN S("80")
  ELSE IF scheme \in {S("https"), S("wss")} THEN S("443")
  ELSE IF scheme = S("ftp") THEN S("21")
  ELSE <<>>

SchemeChars == AlphaNum \cup CharsOf("+-.")

ForbiddenHostChars == CharsOf(" #/:<>?@[\\]^|")

ForbiddenDomainChars == ForbiddenHostChars \cup {"%"}

FailedUrl ==
  [ok |-> FALSE, scheme |-> <<>>, special |-> FALSE, hasHost |-> FALSE,
   credentials |-> <<>>, host |-> <<>>, port |-> <<>>, opaque |-> FALSE,
   path |-> <<>>, hasQuery |-> FALSE, query |-> <<>>,
   hasFragment |-> FALSE, fragment |-> <<>>]

LastIndexOf(cs, c) ==
  IF \E i \in 1..Len(cs) : cs[i] = c
  THEN CHOOSE i \in 1..Len(cs) : cs[i] = c /\ \A j \in (i + 1)..Len(cs) : cs[j] # c
  ELSE 0

\* cs without its longest prefix of characters of cset.
StripLeading(cs, cset) ==
  IF \A i \in 1..Len(cs) : cs[i] \in cset THEN <<>>
  ELSE DropFirst(cs, (CHOOSE i \in 1..Len(cs) :
                        cs[i] \notin cset /\ \A j \in 1..(i - 1) : cs[j] \in cset) - 1)

\* A port as the parser keeps it: decimal, without leading zeros.
NormalPort(digits) ==
  LET d == StripLeading(digits, {"0"}) IN IF d = <<>> /\ digits # <<>> THEN <<"0">> ELSE d

PortTooBig(digits) ==
  LET d == NormalPort(digits)
  IN  \/ Len(d) > 5
      \/ /\ Len(d) = 5
         /\ \E i \in 1..5 :
              /\ CodeOf[d[i]] > CodeOf[S("65535")[i]]
              /\ \A j \in 1..(i - 1) : d[j] = S("65535")[j]

\* The authority "credentials@host:port" of a URL of the given scheme.
ParseAuthority(authority, scheme, special) ==
  LET at       == LastIndexOf(authority, "@")
      cred     == IF at = 0 THEN <<>> ELSE SubSeq(authority, 1, at - 1)
      hostport == DropFirst(authority, at)
      colon    == IndexOf(hostport, ":")
      rawhost  == IF colon = 0 THEN hostport ELSE SubSeq(hostport, 1, colon - 1)
      rawport  == IF colon = 0 THEN <<>> ELSE DropFirst(hostport, colon)
      host     == IF special THEN toLowerCase(PercentDecode(rawhost)) ELSE rawhost
      badhost  == IF special
                  THEN host = <<>> \/ \E i \in 1..Len(host) : host[i] \in ForbiddenDomainChars
                  ELSE \E i \in 1..Len(host) : host[i] \in ForbiddenHostChars
      badport  == (\E i \in 1..Len(rawport) : rawport[i] \notin Digits) \/ PortTooBig(rawport)
      port     == IF NormalPort(rawport) = DefaultPort(scheme) THEN <<>> ELSE NormalPort(rawport)
  IN  [ok |-> ~badhost /\ ~badport, credentials |-> cred, host |-> host, port |-> port]

\* The position of the ":" that ends the scheme of s0, or 0 when s0 does
\* not start with a scheme (the parser has no base URL to fall back on).
SchemeEnd(s0) ==
  LET stop == IndexOfAny(s0, AsciiSet \ SchemeChars)
  IN  IF s0 # <<>> /\ s0[1] \in Alpha /\ stop # 0 /\ s0[stop] = ":" THEN stop ELSE 0

BeforeChar(cs, c) ==
  LET i == IndexOf(cs, c) IN IF i = 0 THEN cs ELSE SubSeq(cs, 1, i - 1)

AfterChar(cs, c) ==
  LET i == IndexOf(cs, c) IN IF i = 0 THEN <<>> ELSE DropFirst(cs, i)

\* What follows "scheme:" is hier ["?" query] ["#" fragment].
HierOf(rest) == BeforeChar(BeforeChar(rest, "#"), "?")

RawQueryOf(rest) == AfterChar(BeforeChar(rest, "#"), "?")

RawFragmentOf(rest) == AfterChar(rest, "#")

PathSeparators(special) == IF special THEN {"/", "\\"} ELSE {"/"}

\* A special URL always has a host; another URL has one after "//".
HasAuthority(hier, special) == special \/ startsWith(hier, <<"/", "/">>)

\* A special URL's authority starts after any run of "/" and "\".
AfterSlashes(hier, special) ==
  IF special THEN StripLeading(hier, PathSeparators(special)) ELSE DropFirst(hier, 2)

AuthorityOf(hier, special) ==
  LET body == AfterSlashes(hier, special)
      stop == IndexOfAny(body, PathSeparators(special))
  IN  IF stop = 0 THEN body ELSE SubSeq(body, 1, stop - 1)

RawPathOf(hier, special) ==
  LET body == AfterSlashes(hier, special)
      stop == IndexOfAny(body, PathSeparators(special))
  IN  IF ~HasAuthority(hier, special) THEN hier
      ELSE IF stop = 0 THEN <<>> ELSE DropFirst(body, stop - 1)

\* A path that is one opaque string ("mailto:u@a.b", "x:y:z").
IsOpaquePath(hier, special) == ~HasAuthority(hier, special) /\ ~startsWith(hier, <<"/">>)

PathOf(hier, special) ==
  LET rawPath == RawPathOf(hier, special)
      slashed == [i \in 1..Len(rawPath) |-> IF special /\ rawPath[i] = "\\" THEN "/" ELSE rawPath[i]]
  IN  IF IsOpaquePath(hier, special) THEN rawPath
      ELSE IF special /\ rawPath = <<>> THEN <<"/">>
      ELSE PercentEncode(slashed, PathEncodeSet)

ParseAfterScheme(scheme, special, rest) ==
  LET hier    == HierOf(rest)
      hasHost == HasAuthority(hier, special)
      auth    == ParseAuthority(AuthorityOf(hier, special), scheme, special)
  IN  IF hasHost /\ ~auth.ok THEN FailedUrl
      ELSE [ok |-> TRUE, scheme |-> scheme, special |-> special, hasHost |-> hasHost,
            credentials |-> IF hasHost THEN auth.credentials ELSE <<>>,
            host |-> IF hasHost THEN auth.host ELSE <<>>,
            port |-> IF hasHost THEN auth.port ELSE <<>>,
            opaque |-> IsOpaquePath(hier, special),
            path |-> PathOf(hier, special),
            hasQuery |-> IndexOf(BeforeChar(rest, "#"), "?") # 0,
            query |-> PercentEncode(RawQueryOf(rest),
                        IF special THEN SpecialQueryEncodeSet ELSE QueryEncodeSet),
            hasFragment |-> IndexOf(rest, "#") # 0,
            fragment |-> PercentEncode(RawFragmentOf(rest), FragmentEncodeSet)]

\* new URL(text) without a base.  ok = FALSE stands for the TypeError.
\* Leading and trailing spaces are dropped before the scheme is read.
ParseURL(text) ==
  LET s0   == trim(text)
      stop == SchemeEnd(s0)
      scheme == toLowerCase(SubSeq(s0, 1, stop - 1))
  IN  IF stop = 0 THEN FailedUrl
      ELSE ParseAfterScheme(scheme, scheme \in SpecialSchemes, DropFirst(s0, stop))

\* URL.prototype.href and toString: the URL serializer.
href(url) ==
  url.scheme \o <<":">>
    \o (IF url.hasHost
        THEN <<"/", "/">>
               \o (IF url.credentials # <<>> THEN url.credentials \o <<"@">> ELSE <<>>)
               \o url.host
               \o (IF url.port # <<>> THEN <<":">> \o url.port ELSE <<>>)
        ELSE <<>>)
    \o url.path
    \o (IF url.hasQuery THEN <<"?">> \o url.query ELSE <<>>)
    \o (IF url.hasFragment THEN <<"#">> \o url.fragment ELSE <<>>)

\* URL.prototype.origin: a tuple origin for the special schemes, the
\* serialization "null" of an opaque origin for every other scheme.
origin(url) ==
  IF url.special
  THEN url.scheme \o S("://") \o url.host
         \o (IF url.port # <<>> THEN <<":">> \o url.port ELSE <<>>)
  ELSE S("null")

pathname(url) == url.path

\* URL.prototype.search: "" for a missing or empty query.
search(url) == IF url.hasQuery /\ url.query # <<>> THEN <<"?">> \o url.query ELSE <<>>

\* URL.prototype.hash: "" for a missing or empty fragment.
hash(url) == IF url.hasFragment /\ url.fragment # <<>> THEN <<"#">> \o url.fragment ELSE <<>>

\* url.search = value.
SetSearch(url, value) ==
  IF value = <<>> THEN [url EXCEPT !.hasQuery = FALSE, !.query = <<>>]
  ELSE LET body == IF Head(value) = "?" THEN Tail(value) ELSE value
       IN  [url EXCEPT !.hasQuery = TRUE,
                       !.query = PercentEncode(body,
                                   IF url.special THEN SpecialQueryEncodeSet ELSE QueryEncodeSet)]

\* url.hash = value.
SetHash(url, value) ==
  IF value = <<>> THEN [url EXCEPT !.hasFragment = FALSE, !.fragment = <<>>]
  ELSE LET body == IF Head(value) = "#" THEN Tail(value) ELSE value
       IN  [url EXCEPT !.hasFragment = TRUE,
                       !.fragment = PercentEncode(body, FragmentEncodeSet)]

----------------------------------------------------------------------------
(* JavaScript values that are not always strings                           *)

JsString(s) == [t |-> "string", v |-> s]

JsNull == [t |-> "null", v |-> ""]

JsUndefined == [t |-> "undefined", v |-> ""]

JsNumber(digits) == [t |-> "number", v |-> digits]

\* An array: its elements are kept apart, in urls.
JsArray == [t |-> "array", v |-> ""]

\* ToBoolean taken after trimming.
Truthy_Trimmed(value) ==
  CASE value.t = "string" -> trim(S(value.v)) # <<>>
    [] value.t = "number" -> value.v \notin {"0", "NaN"}
    [] OTHER -> FALSE

\* ToBoolean: what "!originalUrl" negates.
Truthy(value) ==
  CASE value.t = "string" -> value.v # ""
    [] value.t = "number" -> value.v \notin {"0", "NaN"}
    [] value.t = "array" -> TRUE
    [] OTHER -> FALSE

----------------------------------------------------------------------------
(* src/utils/clean-url-logic.ts                                            *)

TRACKING_PARAM_PATTERNS ==
  << S("utm_source"), S("utm_medium"), S("utm_campaign"), S("utm_term"),
     S("utm_content"), S("utm_nooverride"),
     S("fbclid"), S("igshid"), S("ttclid"), S("tiktok_r"), S("li_fat_id"),
     S("mkt_tok"), S("trk"),
     S("gclid"), S("yclid"), S("dclid"), S("msclkid"), S("gad_source"),
     S("gad_campaignid"), S("gbraid"), S("utm_ad"), S("matchtype"),
     S("campaign_id"), S("ad_id"),
     S("ref"), S("referral"), S("referrer"), S("affiliate_id"), S("afid"),
     S("click_id"), S("clickid"), S("subid"), S("sub_id"), S("partner_id"),
     S("sr_share"),
     S("tag"), S("linkCode"), S("linkId"), S("ascsubtag"), S("camp"),
     S("creative"), S("pd_rd_i"), S("pd_rd_r"), S("pd_rd_w"), S("pd_rd_wg"),
     S("ck_subscriber_id"), S("mc_cid"), S("mc_eid"), S("_hsenc"), S("_hsmi"),
     S("sthash"), S("source"), S("campaign"), S("adgroup"), S("adposition"),
     S("_bhlid") >>

\* isTrackingParam without the two toLowerCase calls.
isTrackingParam_CaseSensitive(key) ==
  \E i \in 1..Len(TRACKING_PARAM_PATTERNS) : key = TRACKING_PARAM_PATTERNS[i]

\* isTrackingParam with startsWith in place of ===.
isTrackingParam_Prefix(key) ==
  \E i \in 1..Len(TRACKING_PARAM_PATTERNS) :
    startsWith(toLowerCase(key), toLowerCase(TRACKING_PARAM_PATTERNS[i]))

\* TRACKING_PARAM_PATTERNS.some(pattern => paramLower === pattern.toLowerCase())
\* with paramLower = key.toLowerCase().
isTrackingParam(key) ==
  LET paramLower == toLowerCase(key)
  IN  \E i \in 1..Len(patterns) : paramLower = toLowerCase(patterns[i])

\* The string new URL() makes of its argument.
JsToString(value) ==
  CASE value.t = "null" -> "null"
    [] value.t = "undefined" -> "undefined"
    [] OTHER -> value.v

\* A string taken for valid when it parses once "https://" is put before it.
isValidUrl_AssumesHttps(urlString) ==
  ParseURL(urlString).ok \/ ParseURL(S("https://") \o urlString).ok

\* Lines 84-91: new URL(urlString) does not throw.
isValidUrl(urlString) == ParseURL(urlString).ok

\* Every value taken for an array.
Array_isArray_Lenient(value) == TRUE

\* Line 288: Array.isArray(urls)
Array_isArray(value) == value.t = "array"

\* /^\d+:/.test(cs)
StartsWithDigitsColon(cs) ==
  LET stop == IndexOfAny(cs, AsciiSet \ Digits)
  IN  stop > 1 /\ cs[stop] = ":"

\* /^[a-zA-Z0-9_-]+\?/.test(cs)
\* No content taken for a hash route.
StartsWithPathLikeContent_Never(cs) == FALSE

StartsWithPathLikeContent(cs) ==
  LET stop == IndexOfAny(cs, AsciiSet \ (AlphaNum \cup {"_", "-"}))
  IN  stop > 1 /\ cs[stop] = "?"

\* The digits-and-colon test without its ^ anchor.
LooksLikeMalformedTracking_Unanchored(hashContent, decodedHash) ==
  \/ includes(hashContent, S("Vite%20RSC"))
  \/ includes(hashContent, S("Next.js"))
  \/ includes(hashContent, S("TypeScript"))
  \/ \E i \in 1..(Len(hashContent) - 1) :
       hashContent[i] \in Digits /\ hashContent[i + 1] = ":"

\* The digits-and-colon test made on the raw content only.
LooksLikeMalformedTracking_RawOnly(hashContent, decodedHash) ==
  \/ includes(hashContent, S("Vite%20RSC"))
  \/ includes(hashContent, S("Next.js"))
  \/ includes(hashContent, S("TypeScript"))
  \/ StartsWithDigitsColon(hashContent)

\* Lines 124-128.
LooksLikeMalformedTracking(hashContent, decodedHash) ==
  \/ includes(hashContent, S("Vite%20RSC"))
  \/ includes(hashContent, S("Next.js"))
  \/ includes(hashContent, S("TypeScript"))
  \/ StartsWithDigitsColon(hashContent)
  \/ StartsWithDigitsColon(decodedHash)

\* A value of type string | null: the string v, or null.
NullHash == [isNull |-> TRUE, v |-> <<>>]

KeepHash(cs) == [isNull |-> FALSE, v |-> cs]

\* The cleaned string returned even when it is empty.
StringOrNull_NeverNull(cleanedString) == KeepHash(cleanedString)

\* Line 176: cleanedString ? cleanedString : null
StringOrNull(cleanedString) ==
  IF cleanedString # <<>> THEN KeepHash(cleanedString) ELSE NullHash

\* The rebuilt string returned whether or not a tracking key was found.
FilterHashParams_AlwaysRebuilt(hashContent, hashParams) ==
  LET cleanedString ==
        URLSearchParams_toString(
          SelectSeq(hashParams, LAMBDA param :
            ~\E i \in 1..Len(patterns) :
               toLowerCase(param.key) = toLowerCase(patterns[i])))
  IN  IF cleanedString # <<>> THEN KeepHash(cleanedString) ELSE NullHash

\* Lines 152-176, given hashParams = new URLSearchParams(decodedHash).
\* Neither the constructor nor the iteration throws for a string, so the
\* catch of lines 177-180 has no case.
FilterHashParams(hashContent, hashParams) ==
  IF ~\E i \in 1..Len(hashParams) : isTrackingParam(hashParams[i].key)
  THEN KeepHash(hashContent)
  ELSE StringOrNull(URLSearchParams_toString(
         SelectSeq(hashParams, LAMBDA param : ~isTrackingParam(param.key))))

\* The signature test placed before the test for a leading "/".
CleanDecodedHash_SignatureFirst(hashContent, decodedHash) ==
  IF LooksLikeMalformedTracking(hashContent, decodedHash) THEN NullHash
  ELSE IF startsWith(decodedHash, <<"/">>) THEN KeepHash(hashContent)
  ELSE IF StartsWithPathLikeContent(decodedHash) THEN KeepHash(hashContent)
  ELSE IF IndexOf(decodedHash, "=") = 0 THEN KeepHash(hashContent)
  ELSE FilterHashParams(hashContent, URLSearchParams(decodedHash))

\* Lines 118-181, given decodedHash = decodeURIComponent(hashContent).
CleanDecodedHash(hashContent, decodedHash) ==
  IF startsWith(decodedHash, <<"/">>) THEN KeepHash(hashContent)
  ELSE IF LooksLikeMalformedTracking(hashContent, decodedHash) THEN NullHash
  ELSE IF StartsWithPathLikeContent(decodedHash) THEN KeepHash(hashContent)
  ELSE IF IndexOf(decodedHash, "=") = 0 THEN KeepHash(hashContent)
  ELSE FilterHashParams(hashContent, URLSearchParams(decodedHash))

\* A content that cannot be decoded is dropped.
TryDecodeHash_DropsUndecodable(hashContent, decoded) ==
  IF ~decoded.ok THEN NullHash
  ELSE IF startsWith(decoded.v, <<"/">>) THEN KeepHash(hashContent)
  ELSE IF LooksLikeMalformedTracking(hashContent, decoded.v) THEN NullHash
  ELSE IF StartsWithPathLikeContent(decoded.v) THEN KeepHash(hashContent)
  ELSE IF IndexOf(decoded.v, "=") = 0 THEN KeepHash(hashContent)
  ELSE KeepHash(hashContent)

\* Lines 109-116: the decoded content, or the original kept when
\* decodeURIComponent throws.
TryDecodeHash(hashContent, decoded) ==
  IF ~decoded.ok THEN KeepHash(hashContent) ELSE CleanDecodedHash(hashContent, decoded.v)

\* cleanHashFragment(hashContent): the cleaned content, or null.
cleanHashFragment(hashContent) ==
  IF hashContent = <<>> THEN NullHash
  ELSE TryDecodeHash(hashContent, decodeURIComponent(hashContent))

\* The message of the TypeError that new URL throws.
InvalidUrlMessage == "Invalid URL"

\* A failure that hands the input back as cleanedUrl.
FailureResult_KeepsUrl(message, originalUrl) ==
  [success |-> FALSE, error |-> JsString(message), originalUrl |-> originalUrl,
   cleanedUrl |-> originalUrl, removedParams |-> <<>>, removedCount |-> 0]

FailureResult(message, originalUrl) ==
  [success |-> FALSE, error |-> JsString(message), originalUrl |-> originalUrl,
   cleanedUrl |-> JsNull, removedParams |-> <<>>, removedCount |-> 0]

ParamStrings(params) ==
  [i \in 1..Len(params) |-> [key |-> Str(params[i].key), value |-> Str(params[i].value)]]

\* removedParams kept as one entry per key (the last occurrence wins).
RemovedOf_OnePerKey(originalParams) ==
  LET idx == SelectSeq([i \in 1..Len(originalParams) |-> i],
                       LAMBDA i : /\ isTrackingParam(originalParams[i].key)
                                  /\ \A j \in (i + 1)..Len(originalParams) :
                                       originalParams[j].key # originalParams[i].key)
  IN  [j \in 1..Len(idx) |-> originalParams[idx[j]]]

\* Lines 219-236: the parameters the loop pushes to removedParams, and the
\* ones it appends to cleanedParams, each in encounter order.
RemovedOf(originalParams) ==
  SelectSeq(originalParams, LAMBDA param : isTrackingParam(param.key))

\* Every parameter kept in the cleaned URL, the removed ones too.
KeptOf_Everything(originalParams) == originalParams

KeptOf(originalParams) ==
  SelectSeq(originalParams, LAMBDA param : ~isTrackingParam(param.key))

\* Lines 241-244: cleanedUrl.search = cleanedParams.toString(), when that
\* string is not empty.
WithSearch(cleanedUrl, queryText) ==
  IF cleanedUrl.ok /\ queryText # <<>> THEN SetSearch(cleanedUrl, queryText) ELSE cleanedUrl

\* Lines 251-253: cleanedUrl.hash = '#' + cleanedHash, when cleanedHash is
\* neither null nor empty.
ApplyHash(cleanedUrl, cleanedHash) ==
  IF ~cleanedHash.isNull /\ cleanedHash.v # <<>>
  THEN SetHash(cleanedUrl, <<"#">> \o cleanedHash.v)
  ELSE cleanedUrl

\* Lines 247-255, given urlHash = url.hash.
WithHash(cleanedUrl, urlHash) ==
  IF cleanedUrl.ok /\ urlHash # <<>>
  THEN ApplyHash(cleanedUrl, cleanHashFragment(Tail(urlHash)))
  ELSE cleanedUrl

\* Lines 238-255: the cleaned URL object; ok = FALSE when
\* new URL(url.origin + url.pathname) throws.
BuildCleanedUrl(url, cleanedParams) ==
  WithHash(WithSearch(ParseURL(origin(url) \o pathname(url)),
                      URLSearchParams_toString(cleanedParams)),
           hash(url))

\* savedBytes taken from the trimmed input.
SavedBytes_Trimmed(originalUrl, finalCleanedUrl) ==
  Len(trim(originalUrl)) - Len(finalCleanedUrl)

\* Line 267.
SavedBytes(originalUrl, finalCleanedUrl) == Len(originalUrl) - Len(finalCleanedUrl)

\* Lines 257-279: the result, or the failure of the catch block.
Finish(originalUrl, removedParams, cleanedUrl) ==
  IF ~cleanedUrl.ok
  THEN FailureResult("URL processing error: " \o InvalidUrlMessage, originalUrl)
  ELSE [success |-> TRUE, error |-> JsNull, originalUrl |-> originalUrl,
        cleanedUrl |-> JsString(Str(href(cleanedUrl))),
        removedParams |-> ParamStrings(removedParams),
        removedCount |-> Len(removedParams),
        hasChanges |-> Len(removedParams) > 0,
        savedBytes |-> SavedBytes(S(originalUrl.v), href(cleanedUrl))]

\* The tracking pairs of the fragment reported next to the query's.
CleanParams_ReportsFragment(originalUrl, url, originalParams) ==
  Finish(originalUrl,
         SelectSeq(originalParams \o URLSearchParams(PercentDecode(DropFirst(hash(url), 1))),
                   LAMBDA param : isTrackingParam(param.key)),
         BuildCleanedUrl(url, SelectSeq(originalParams,
                                        LAMBDA param : ~isTrackingParam(param.key))))

\* Lines 217-279, given originalParams = new URLSearchParams(url.search).
CleanParams(originalUrl, url, originalParams) ==
  Finish(originalUrl, RemovedOf(originalParams),
         BuildCleanedUrl(url, KeptOf(originalParams)))

\* Lines 215-279, given url = new URL(trimmedUrl).
CleanParsed(originalUrl, url) ==
  CleanParams(originalUrl, url, URLSearchParams(search(url)))

\* Lines 204-279, given trimmedUrl = originalUrl.trim().
CleanTrimmed(originalUrl, trimmedUrl) ==
  IF ~isValidUrl(trimmedUrl)
  THEN FailureResult("Invalid URL: Not a properly formatted URL", originalUrl)
  ELSE CleanParsed(originalUrl, ParseURL(trimmedUrl))

\* The trimmed string reported as originalUrl.
cleanUrl_ReportsTrimmed(originalUrl) ==
  IF ~Truthy(originalUrl) \/ originalUrl.t # "string"
  THEN FailureResult("Invalid URL: URL must be a non-empty string", originalUrl)
  ELSE CleanTrimmed(JsString(Str(trim(S(originalUrl.v)))), trim(S(originalUrl.v)))

cleanUrl(originalUrl) ==
  IF ~Truthy(originalUrl) \/ originalUrl.t # "string"
  THEN FailureResult("Invalid URL: URL must be a non-empty string", originalUrl)
  ELSE CleanTrimmed(originalUrl, trim(S(originalUrl.v)))

\* The results of the elements that could be cleaned, the others left out.
cleanUrls_SkipsFailures(urlArray) ==
  SelectSeq([i \in 1..Len(urlArray) |-> cleanUrl(urlArray[i])],
            LAMBDA cleanResult : cleanResult.success)

\* Lines 287-293, for an array urls: urls.map(url => cleanUrl(url)).
cleanUrls(urlArray) == [i \in 1..Len(urlArray) |-> cleanUrl(urlArray[i])]

\* Lines 346-358: the key lists of the else-if chain.
SocialKeys ==
  {S("fbclid"), S("igshid"), S("ttclid"), S("tiktok_r"), S("li_fat_id"),
   S("mkt_tok"), S("trk")}

AdsKeys ==
  {S("gclid"), S("yclid"), S("dclid"), S("msclkid"), S("gad_source"),
   S("gad_campaignid"), S("gbraid"), S("utm_ad"), S("matchtype"),
   S("campaign_id"), S("ad_id")}

AffiliateKeys ==
  {S("ref"), S("referral"), S("referrer"), S("affiliate_id"), S("afid"),
   S("click_id"), S("clickid"), S("subid"), S("sub_id"), S("partner_id"),
   S("sr_share"), S("tag"), S("linkcode"), S("linkid"), S("ascsubtag"),
   S("camp"), S("creative"), S("pd_rd_i"), S("pd_rd_r"), S("pd_rd_w"),
   S("pd_rd_wg")}

\* The email list without the two HubSpot keys.
EmailKeys_MailOnly == {S("ck_subscriber_id"), S("mc_cid"), S("mc_eid")}

EmailKeys ==
  {S("ck_subscriber_id"), S("mc_cid"), S("mc_eid"), S("_hsenc"), S("_hsmi")}

\* The chain with the ads list tested before the utm_ prefix.
CategoryOfLower_AdsFirst(paramLower) ==
  IF paramLower \in AdsKeys THEN "ads"
  ELSE IF startsWith(paramLower, S("utm_")) THEN "utm"
  ELSE IF paramLower \in SocialKeys THEN "social"
  ELSE IF paramLower \in AffiliateKeys THEN "affiliate"
  ELSE IF paramLower \in EmailKeys THEN "email"
  ELSE "analytics"

\* Lines 344-358, given paramLower = key.toLowerCase(): the array the
\* parameter is pushed to.
CategoryOfLower(paramLower) ==
  IF startsWith(paramLower, S("utm_")) THEN "utm"
  ELSE IF paramLower \in SocialKeys THEN "social"
  ELSE IF paramLower \in AdsKeys THEN "ads"
  ELSE IF paramLower \in AffiliateKeys THEN "affiliate"
  ELSE IF paramLower \in EmailKeys THEN "email"
  ELSE "analytics"

CategoryOf(key) == CategoryOfLower(toLowerCase(S(key)))

\* Six separate ifs in place of the else-if chain.
PushedTo_EveryMatch(category, removedParams) ==
  SelectSeq(removedParams, LAMBDA param :
    LET paramLower == toLowerCase(S(param.key))
    IN  CASE category = "utm" -> startsWith(paramLower, S("utm_"))
          [] category = "social" -> paramLower \in SocialKeys
          [] category = "ads" -> paramLower \in AdsKeys
          [] category = "affiliate" -> paramLower \in AffiliateKeys
          [] category = "email" -> paramLower \in EmailKeys
          [] OTHER -> CategoryOfLower(paramLower) = "analytics")

\* The entries the forEach of lines 343-360 pushes to one category array.
PushedTo(category, removedParams) ==
  SelectSeq(removedParams, LAMBDA param : CategoryOf(param.key) = category)

\* Lines 326-360: the six arrays after the forEach.
Categorize(removedParams) ==
  [utm |-> PushedTo("utm", removedParams),
   social |-> PushedTo("social", removedParams),
   ads |-> PushedTo("ads", removedParams),
   affiliate |-> PushedTo("affiliate", removedParams),
   email |-> PushedTo("email", removedParams),
   analytics |-> PushedTo("analytics", removedParams)]

\* Lines 364-371 (and 314-321, where every array is empty).
Summarize(categories) ==
  [utm |-> Len(categories.utm),
   social |-> Len(categories.social),
   ads |-> Len(categories.ads),
   affiliate |-> Len(categories.affiliate),
   email |-> Len(categories.email),
   analytics |-> Len(categories.analytics)]

\* { ...cleanResult, categories, summary }
WithCategories(cleanResult, categories) ==
  cleanResult @@ [categories |-> categories, summary |-> Summarize(categories)]

\* The failure result handed on as it is.
Analyze_BareFailure(cleanResult) ==
  IF ~cleanResult.success
  THEN cleanResult
  ELSE WithCategories(cleanResult, Categorize(cleanResult.removedParams))

\* Lines 303-372, given result = cleanUrl(url).
Analyze(cleanResult) ==
  IF ~cleanResult.success
  THEN WithCategories(cleanResult, Categorize(<<>>))
  ELSE WithCategories(cleanResult, Categorize(cleanResult.removedParams))

analyzeUrl(url) == Analyze(cleanUrl(url))

----------------------------------------------------------------------------
(* The inputs the model calls cleanUrl with                                *)

\* The most query parameters a generated URL carries.
MaxParams == 2

\* Special schemes first, then schemes whose origin serializes as "null".
Bases ==
  {"https://a.b", "https://a.b/p", "HTTPS://U@A.b:443/p", "ftp://a.b/p",
   "mailto:u@a.b", "foo://h/p", "x:y:z"}

ParamPool ==
  {"utm_source=g", "UTM_Source=G", "utm%5Fsource=g", "linkcode=1",
   "utm_source0=1", "utm_id=1", "q=utm_source",
   "a=1", "a=2", "b", "c=x%26y+z"}

FragmentPool ==
  {"", "top", "a%20b", "s1:x", "TypeScript", "242:x", "%zz",
   "/r?utm_source=g", "r?utm_source=g", "p=1", "p%3D1",
   "utm_source=g", "utm_source%3Dg%26p%3D1", "utm%255Fsource%3Dg",
   "/TypeScript", "%2Fr?utm_source=g", "p=1&gclid=2&q=a%20b&a=3",
   "utm_source%3Dg%26fbclid%3D1",
   "r?l=TypeScript", "r?a=1&utm_source=g", "r%3Futm_source=g"}

\* Contents handed to cleanHashFragment directly, next to every other input.
HashContents ==
  {"p=a b&utm_source=g", "=&fbclid=1", "%zz=1&utm_source=g", "utm_source",
   "r_1-x?gclid=1", "1:utm_source=g", "Next.js=1",
   "TypeScript%zz", "1%3Ax", "a%20Vite%20RSC"}

\* Tracking parameters of each category of analyzeUrl.
CategoryPool ==
  {"fbclid=1", "gclid=1", "utm_ad=1", "UTM_AD=2", "LINKCODE=1", "linkCode=2",
   "mc_cid=1", "source=1", "matchtype=e", "_BHLID=1"}

\* The most elements an array handed to cleanUrls has.
MaxUrls == 2

ArrayElements ==
  {JsNull, JsString(""), JsString("not-a-url"), JsString("mailto:u@a.b"),
   JsString("https://a.b?utm_source=g"), JsString(" https://a.b/p?a=1#top")}

UrlArrays == UNION {[1..n -> ArrayElements] : n \in 0..MaxUrls}

RECURSIVE JoinStrings(_, _)
JoinStrings(parts, n) ==
  IF n = 0 THEN ""
  ELSE IF n = 1 THEN parts[1]
  ELSE JoinStrings(parts, n - 1) \o "&" \o parts[n]

\* No query, or "?" followed by up to MaxParams pieces of the pool.
Queries ==
  {""} \cup UNION {{"?" \o JoinStrings(f, n) : f \in [1..n -> ParamPool]} : n \in 0..MaxParams}

ShortQueries == {"", "?a=1", "?utm_source=g&a=1"}

\* The bases that get every query: one with an origin, one without.
QueryBases == {"https://a.b/p", "x:y:z"}

UrlStrings ==
  {b \o q : b \in QueryBases, q \in Queries}
    \cup {b \o q : b \in Bases, q \in ShortQueries}
    \cup {b \o q \o "#" \o f : b \in Bases, q \in ShortQueries, f \in FragmentPool}
    \cup {"https://a.b/p?utm_source=g&" \o c \o "&" \o d : c, d \in CategoryPool}

PaddedStrings ==
  {" " \o u \o "  " : u \in {"https://a.b", "https://a.b/p?utm_source=g&a=1#top", "x:y:z", "a.b"}}
    \cup {"https://a.b ", " https://a.b?a=1"}

NotUrlStrings == {"not-a-url", "a.b", "//a.b", "https://", " ", "   "}

\* A tracking parameter beside a kept one that toString() writes longer.
LengthenedUrls == {"https://a.b/p?trk&q=~~~", "https://a.b/p?trk&q=~~"}

\* URLs of the remaining schemes that isValidUrl is documented with.
MoreUrls == {"http://a.b", "http://a.b:3000/p?utm_source=g", "ftp://a.b"}

Inputs ==
  {JsString(u) : u \in UrlStrings \cup PaddedStrings \cup NotUrlStrings
                      \cup FragmentPool \cup HashContents \cup MoreUrls
                      \cup LengthenedUrls}
    \cup {JsString(""), JsNull, JsUndefined, JsNumber("123"), JsNumber("0")}

\* The arguments that are used again by a later call: all but the long queries.
SecondCallInputs ==
  Inputs \ {JsString(b \o q) : b \in QueryBases, q \in Queries \ ShortQueries}

\* The whitespace put before and after an argument.
Paddings == {<<" ", "">>, <<"", "  ">>}

NoResult == [success |-> FALSE, none |-> TRUE]

----------------------------------------------------------------------------
(* The background service worker                                           *)

\* src/utils/config.ts, BADGE.
MAX_COUNT == 99

TRACKING_COLOR == "#e53e3e"

\* The tabs of the browser, and the most events the browser sends.
MaxTabs == 2

MaxEvents == 2

Tabs == 1..MaxTabs

\* The pages a tab can show, the links a context menu is opened on and the
\* URLs a message carries.
TabUrls ==
  {"chrome://newtab/", "https://a.b/p", "https://a.b/p?utm_source=g&fbclid=1"}

LinkUrls == {"https://a.b/p", "https://a.b/p?gclid=1"}

\* Lines 199-213 of updateTabBadge: the text handed to setBadge.
BadgeTextOf(analyzed) ==
  IF analyzed.success /\ analyzed.removedCount > 0
  THEN (IF analyzed.removedCount > MAX_COUNT THEN "99+"
        ELSE ToString(analyzed.removedCount))
  ELSE ""

\* The badge computed for every page, web or not.
BadgeText_AnyScheme(url) ==
  IF url = "" THEN "" ELSE BadgeTextOf(analyzeUrl(JsString(url)))

BadgeText(url) ==
  IF url = "" \/ (~startsWith(S(url), S("http://")) /\ ~startsWith(S(url), S("https://")))
  THEN ""
  ELSE BadgeTextOf(analyzeUrl(JsString(url)))

\* A handler suspended at an await: where it resumes, and the tabs (id and
\* URL as read) that it has still to go through, the current one first.
Handler(at, todo) == [at |-> at, todo |-> todo]

TabRead(t, url) == [id |-> t, url |-> url]

\* Lines 224-228 and 241-246: what is left of a handler once the badge
\* text of its current tab is set. A text that is not empty is followed
\* by setBadgeBackgroundColor, then the loop goes on to the next tab.
NextTab(todo) ==
  IF Tail(todo) = <<>> THEN {} ELSE {Handler("update", Tail(todo))}

AfterSetBadgeText(todo) ==
  IF BadgeText(Head(todo).url) # "" THEN {Handler("color", todo)}
  ELSE NextTab(todo)

\* Lines 133-135 and 172-174: the cleaned URL to apply, or "" for none.
ChangedUrl(cleaned) ==
  IF cleaned.success /\ cleaned.hasChanges /\ Truthy(cleaned.cleanedUrl)
  THEN cleaned.cleanedUrl.v
  ELSE ""

\* Lines 158-164: urlToClean.
UrlToClean(menuItemId, url, linkUrl) ==
  IF menuItemId = "clean-current-url" /\ url # "" THEN url
  ELSE IF menuItemId = "clean-link-url" /\ linkUrl # "" THEN linkUrl
  ELSE ""

\* Lines 279-282: chrome.storage.local after set(); Date.now() is the
\* number of events so far.
EmptyStorage ==
  [cleanedUrlForClipboard |-> JsUndefined, clipboardTimestamp |-> JsUndefined]

StoredClipboard(text, now) ==
  [cleanedUrlForClipboard |-> JsString(text),
   clipboardTimestamp |-> JsNumber(ToString(now))]

\* Lines 289-297.
getTrackingParamCount(url) ==
  IF analyzeUrl(JsString(url)).success
  THEN analyzeUrl(JsString(url)).removedCount
  ELSE 0

\* The browser when the worker starts: every tab on a page that is not a
\* web page, no badge, nothing stored.
WorkerStart ==
  /\ tabUrl = [t \in Tabs |-> "chrome://newtab/"]
  /\ loading = {}
  /\ badgeText = [t \in Tabs |-> ""]
  /\ badgeColor = [t \in Tabs |-> ""]
  /\ pending = {}
  /\ storage = EmptyStorage
  /\ response = NoResult
  /\ events = 0

----------------------------------------------------------------------------
(* The calls                                                               *)

\* The argument of the first call: a value that is no array, or an array
\* with its elements in urls.
Init ==
  /\ \/ input \in Inputs /\ urls = <<>>
     \/ input = JsArray /\ urls \in UrlArrays
  /\ pc = "start"
  /\ result = NoResult
  /\ again = NoResult
  /\ returnedHash = JsUndefined
  /\ analysis = NoResult
  /\ results = <<>>
  /\ thrown = ""
  /\ valid = FALSE
  /\ paddedInput = ""
  /\ padded = NoResult
  /\ repeat = NoResult
  /\ patterns = TRACKING_PARAM_PATTERNS
  /\ WorkerStart

\* A call made after the first cleanUrl(input) has returned.
SecondCall == pc = "cleaned" /\ input \in SecondCallInputs

\* result = cleanUrl(input)
CallCleanUrl ==
  /\ pc = "start"
  /\ result' = cleanUrl(input)
  /\ pc' = "cleaned"
  /\ UNCHANGED <<input, again, returnedHash, analysis, urls, results, thrown,
                 valid, paddedInput, padded, repeat, patterns>>
  /\ UNCHANGED workerVars

\* again = cleanUrl(result.cleanedUrl), for a result that has a cleaned URL.
CallCleanUrlAgain ==
  /\ pc = "cleaned"
  /\ result.success
  /\ again' = cleanUrl(result.cleanedUrl)
  /\ pc' = "recleaned"
  /\ UNCHANGED <<input, result, returnedHash, analysis, urls, results, thrown,
                 valid, paddedInput, padded, repeat, patterns>>
  /\ UNCHANGED workerVars

\* padded = cleanUrl(w1 + input + w2), for a string and whitespace w1, w2.
CallCleanUrlPadded ==
  /\ SecondCall
  /\ input.t = "string"
  /\ \E w \in Paddings :
       /\ paddedInput' = w[1] \o input.v \o w[2]
       /\ padded' = cleanUrl(JsString(w[1] \o input.v \o w[2]))
  /\ pc' = "padded"
  /\ UNCHANGED <<input, result, again, returnedHash, analysis, urls, results,
                 thrown, valid, repeat, patterns>>
  /\ UNCHANGED workerVars

\* returnedHash = cleanHashFragment(input), for a string: null or a string.
CallCleanHashFragment ==
  /\ pc = "start" \/ SecondCall
  /\ input.t = "string"
  /\ returnedHash' = IF cleanHashFragment(S(input.v)).isNull THEN JsNull
                    ELSE JsString(Str(cleanHashFragment(S(input.v)).v))
  /\ pc' = "hashed"
  /\ UNCHANGED <<input, result, again, analysis, urls, results, thrown, valid,
                 paddedInput, padded, repeat, patterns>>
  /\ UNCHANGED workerVars

\* analyzeUrl taking the first entry off the table as it goes.
CallAnalyzeUrl_ShiftsTable ==
  /\ pc = "start"
  /\ analysis' = analyzeUrl(input)
  /\ patterns' = Tail(patterns)
  /\ pc' = "analyzed"
  /\ UNCHANGED <<input, result, again, returnedHash, urls, results, thrown,
                 valid, paddedInput, padded, repeat>>
  /\ UNCHANGED workerVars

\* analysis = analyzeUrl(input)
CallAnalyzeUrl ==
  /\ pc = "start"
  /\ analysis' = analyzeUrl(input)
  /\ pc' = "analyzed"
  /\ UNCHANGED <<input, result, again, returnedHash, urls, results, thrown,
                 valid, paddedInput, padded, repeat, patterns>>
  /\ UNCHANGED workerVars

\* valid = isValidUrl(input), for a value that is no array.
CallIsValidUrl ==
  /\ pc = "start" \/ SecondCall
  /\ ~Array_isArray(input)
  /\ valid' = isValidUrl(S(JsToString(input)))
  /\ pc' = "validated"
  /\ UNCHANGED <<input, result, again, returnedHash, analysis, urls, results,
                 thrown, paddedInput, padded, repeat, patterns>>
  /\ UNCHANGED workerVars

\* results = cleanUrls(input), which throws when input is no array.
CallCleanUrls ==
  /\ pc = "start" \/ (pc = "cleaned" /\ Array_isArray(input))
  /\ IF ~Array_isArray(input)
     THEN /\ thrown' = "Input must be an array of URLs"
          /\ pc' = "threw"
          /\ UNCHANGED results
     ELSE /\ results' = cleanUrls(urls)
          /\ pc' = "batched"
          /\ UNCHANGED thrown
  /\ UNCHANGED <<input, result, again, returnedHash, analysis, urls, valid,
                 paddedInput, padded, repeat, patterns>>
  /\ UNCHANGED workerVars

\* repeat = cleanUrl(input), after cleanUrl(input) or analyzeUrl(input) and
\* the calls that followed have returned.
CallCleanUrlRepeat ==
  /\ pc \in {"recleaned", "padded", "analyzed", "hashed", "validated", "batched"}
  /\ input \in SecondCallInputs \/ Array_isArray(input)
  /\ result # NoResult \/ analysis # NoResult
  /\ repeat' = cleanUrl(input)
  /\ pc' = "repeated"
  /\ UNCHANGED <<input, result, again, returnedHash, analysis, urls, results,
                 thrown, valid, paddedInput, padded, patterns>>
  /\ UNCHANGED workerVars

Next ==
  \/ CallCleanUrl
  \/ CallCleanUrlAgain
  \/ CallCleanUrlPadded
  \/ CallCleanHashFragment
  \/ CallAnalyzeUrl
  \/ CallIsValidUrl
  \/ CallCleanUrls
  \/ CallCleanUrlRepeat

Spec == Init /\ [][Next]_vars

----------------------------------------------------------------------------
(* The events of the background service worker                             *)

\* No call is made to the engine from outside the worker.
WorkerInit ==
  /\ input = JsUndefined /\ urls = <<>>
  /\ pc = "worker"
  /\ result = NoResult
  /\ again = NoResult
  /\ returnedHash = JsUndefined
  /\ analysis = NoResult
  /\ results = <<>>
  /\ thrown = ""
  /\ valid = FALSE
  /\ paddedInput = ""
  /\ padded = NoResult
  /\ repeat = NoResult
  /\ patterns = TRACKING_PARAM_PATTERNS
  /\ WorkerStart

\* The browser: a tab goes to another page; onUpdated with status
\* 'complete' follows once the page is loaded.
Navigate ==
  /\ events < MaxEvents
  /\ \E t \in Tabs, url \in TabUrls :
       /\ url # tabUrl[t]
       /\ tabUrl' = [tabUrl EXCEPT ![t] = url]
       /\ loading' = loading \cup {t}
  /\ events' = events + 1
  /\ UNCHANGED <<badgeText, badgeColor, pending, storage, response>>
  /\ UNCHANGED <<engineVars, patterns>>

\* onUpdated with status 'complete': handleTabUpdate runs updateTabBadge
\* with the URL of the event, up to the await in setBadge.
handleTabUpdate ==
  /\ \E t \in loading :
       /\ loading' = loading \ {t}
       /\ IF tabUrl[t] # ""
          THEN /\ badgeText' = [badgeText EXCEPT ![t] = BadgeText(tabUrl[t])]
               /\ pending' = pending \cup AfterSetBadgeText(<<TabRead(t, tabUrl[t])>>)
          ELSE UNCHANGED <<badgeText, pending>>
  /\ UNCHANGED <<tabUrl, badgeColor, storage, response, events>>
  /\ UNCHANGED <<engineVars, patterns>>

\* onActivated: handleTabActivation asks for the tab and waits.
handleTabActivation ==
  /\ events < MaxEvents
  /\ \E t \in Tabs : pending' = pending \cup {Handler("get", <<TabRead(t, "")>>)}
  /\ events' = events + 1
  /\ UNCHANGED <<tabUrl, loading, badgeText, badgeColor, storage, response>>
  /\ UNCHANGED <<engineVars, patterns>>

\* chrome.tabs.get answers with the tab as it is now; the handler resumes
\* later, when it has no URL to go on with it ends.
TabsGet ==
  /\ \E h \in pending :
       /\ h.at = "get"
       /\ pending' = (pending \ {h})
            \cup (IF tabUrl[Head(h.todo).id] # ""
                  THEN {Handler("update",
                                <<TabRead(Head(h.todo).id, tabUrl[Head(h.todo).id])>>)}
                  ELSE {})
  /\ UNCHANGED <<tabUrl, loading, badgeText, badgeColor, storage, response, events>>
  /\ UNCHANGED <<engineVars, patterns>>

\* onInstalled or onStartup: updateAllTabBadges asks for the tabs and waits.
updateAllTabBadges ==
  /\ events < MaxEvents
  /\ pending' = pending \cup {Handler("query", <<>>)}
  /\ events' = events + 1
  /\ UNCHANGED <<tabUrl, loading, badgeText, badgeColor, storage, response>>
  /\ UNCHANGED <<engineVars, patterns>>

\* chrome.tabs.query answers with the tabs as they are now.
TabsQuery ==
  /\ \E h \in pending :
       /\ h.at = "query"
       /\ pending' = (pending \ {h})
            \cup {Handler("update", [t \in Tabs |-> TabRead(t, tabUrl[t])])}
  /\ UNCHANGED <<tabUrl, loading, badgeText, badgeColor, storage, response, events>>
  /\ UNCHANGED <<engineVars, patterns>>

\* A handler resumes and runs updateTabBadge for its current tab, with the
\* URL it holds, up to the await in setBadge.
updateTabBadge ==
  /\ \E h \in pending :
       /\ h.at = "update"
       /\ IF Head(h.todo).url # ""
          THEN /\ badgeText' = [badgeText EXCEPT ![Head(h.todo).id] =
                                  BadgeText(Head(h.todo).url)]
               /\ pending' = (pending \ {h}) \cup AfterSetBadgeText(h.todo)
          ELSE /\ pending' = (pending \ {h}) \cup NextTab(h.todo)
               /\ UNCHANGED badgeText
  /\ UNCHANGED <<tabUrl, loading, badgeColor, storage, response, events>>
  /\ UNCHANGED <<engineVars, patterns>>

\* setBadge resumes after setBadgeText with a text that is not empty and
\* sets the colour; its caller then goes on to the next tab.
setBadge ==
  /\ \E h \in pending :
       /\ h.at = "color"
       /\ badgeColor' = [badgeColor EXCEPT ![Head(h.todo).id] = TRACKING_COLOR]
       /\ pending' = (pending \ {h}) \cup NextTab(h.todo)
  /\ UNCHANGED <<tabUrl, loading, badgeText, storage, response, events>>
  /\ UNCHANGED <<engineVars, patterns>>

\* action.onClicked: the tab is sent to its cleaned URL when cleaning
\* changes it.
handleActionClick ==
  /\ events < MaxEvents
  /\ \E t \in Tabs :
       IF tabUrl[t] # "" /\ ChangedUrl(cleanUrl(JsString(tabUrl[t]))) # ""
       THEN /\ tabUrl' = [tabUrl EXCEPT ![t] = ChangedUrl(cleanUrl(JsString(tabUrl[t])))]
            /\ loading' = loading \cup {t}
       ELSE UNCHANGED <<tabUrl, loading>>
  /\ events' = events + 1
  /\ UNCHANGED <<badgeText, badgeColor, pending, storage, response>>
  /\ UNCHANGED <<engineVars, patterns>>

\* contextMenus.onClicked: cleanUrlFromContext hands the cleaned URL to
\* copyToClipboard when cleaning changes the URL.
handleContextMenuClick ==
  /\ events < MaxEvents
  /\ \E menuItemId \in {"clean-current-url", "clean-link-url"},
        t \in Tabs, linkUrl \in LinkUrls \cup {""} :
       IF /\ UrlToClean(menuItemId, tabUrl[t], linkUrl) # ""
          /\ ChangedUrl(cleanUrl(JsString(UrlToClean(menuItemId, tabUrl[t], linkUrl)))) # ""
       THEN storage' =
              StoredClipboard(
                ChangedUrl(cleanUrl(JsString(UrlToClean(menuItemId, tabUrl[t], linkUrl)))),
                events)
       ELSE UNCHANGED storage
  /\ events' = events + 1
  /\ UNCHANGED <<tabUrl, loading, badgeText, badgeColor, pending, response>>
  /\ UNCHANGED <<engineVars, patterns>>

\* runtime.onMessage: the count or the result is sent back; any other
\* request gets no response.
handleMessage ==
  /\ events < MaxEvents
  /\ \E action \in {"getTrackingCount", "cleanUrl", "ping"}, url \in LinkUrls :
       response' = IF action = "getTrackingCount"
                   THEN [success |-> TRUE, count |-> getTrackingParamCount(url)]
                   ELSE IF action = "cleanUrl" THEN cleanUrl(JsString(url))
                   ELSE response
  /\ events' = events + 1
  /\ UNCHANGED <<tabUrl, loading, badgeText, badgeColor, pending, storage>>
  /\ UNCHANGED <<engineVars, patterns>>

WorkerNext ==
  \/ Navigate
  \/ handleTabUpdate
  \/ handleTabActivation
  \/ TabsGet
  \/ updateAllTabBadges
  \/ TabsQuery
  \/ updateTabBadge
  \/ setBadge
  \/ handleActionClick
  \/ handleContextMenuClick
  \/ handleMessage

WorkerSpec == WorkerInit /\ [][WorkerNext]_vars

----------------------------------------------------------------------------
(* What the properties read off the state                                  *)

Called == pc \in {"cleaned", "recleaned"}

InputIsString == input.t = "string"

\* new URL(input.trim()), and the parameters of its query.
InputUrl == ParseURL(trim(S(input.v)))

InputParams == URLSearchParams(search(InputUrl))

\* The cleaned URL of a successful result, parsed again, and its parameters.
CleanedUrlOf(res) == ParseURL(S(res.cleanedUrl.v))

CleanedParamsOf(res) == URLSearchParams(search(CleanedUrlOf(res)))

\* "Case-insensitively equals an entry of the Tracking Pattern Table".
LowerPatterns ==
  {toLowerCase(TRACKING_PARAM_PATTERNS[i]) : i \in 1..Len(TRACKING_PARAM_PATTERNS)}

MatchesTable(key) == toLowerCase(key) \in LowerPatterns

Range(seq) == {seq[i] : i \in 1..Len(seq)}

\* The entries of seq at the positions where mask has the value flag.
MaskedBy(seq, mask, flag) ==
  LET idx == SelectSeq([i \in 1..Len(seq) |-> i], LAMBDA i : mask[i] = flag)
  IN  [j \in 1..Len(idx) |-> seq[idx[j]]]

CountKey(params, key) == Cardinality({i \in 1..Len(params) : params[i].key = key})

\* The inputs stay inside what the platform operators model: printable
\* ASCII whose escapes, as far as they get decoded (the query once, the
\* fragment twice), stand for printable ASCII; no file: or blob: URL; no
\* host that ends in a number or is an IPv6 address; no "." or ".."
\* path segment; no space inside an opaque path.
EscapesPrintable(cs) ==
  \A i \in 1..Len(cs) : IsEscapeAt(cs, i) => IsPrintableByte(EscapeByte(cs, i))

LastLabel(host) == DropFirst(host, LastIndexOf(host, "."))

UrlInDomain(url) ==
  /\ url.scheme \notin {S("file"), S("blob")}
  /\ url.special =>
       /\ \E i \in 1..Len(LastLabel(url.host)) : LastLabel(url.host)[i] \notin Digits
       /\ url.credentials \in Seq(AlphaNum)
  /\ ~url.opaque =>
       \A seg \in Range(Split(url.path, "/")) :
         toLowerCase(seg) \notin {S("."), S(".."), S("%2e"), S(".%2e"), S("%2e."), S("%2e%2e")}
  /\ url.opaque => " " \notin Range(url.path)

DomainOK ==
  InputIsString =>
    /\ Range(S(input.v)) \subseteq AsciiSet \ {"GRAVE"}
    /\ EscapesPrintable(S(input.v))
    /\ EscapesPrintable(PercentDecode(S(input.v)))
    /\ EscapesPrintable(PercentDecode(PercentDecode(S(input.v))))
    /\ InputUrl.ok => UrlInDomain(InputUrl)

----------------------------------------------------------------------------
(* Properties                                                              *)

\* C1: whenever cleanUrl returns success = true, no query parameter of
\* cleanedUrl has a key that case-insensitively equals an entry of the
\* Tracking Pattern Table.
C1_NoTrackingKeyInCleanedUrl ==
  (Called /\ result.success) =>
    \A param \in Range(CleanedParamsOf(result)) : ~MatchesTable(param.key)

\* A successful call that removed a parameter and kept another one.
C1_Witness ==
  /\ pc = "cleaned"
  /\ result.success
  /\ result.removedCount > 0
  /\ CleanedParamsOf(result) # <<>>

ExpectedHash(urlHash) ==
  IF urlHash = <<>> THEN <<>>
  ELSE LET cleanedHash == cleanHashFragment(Tail(urlHash))
       IN  IF cleanedHash.isNull \/ cleanedHash.v = <<>> THEN <<>>
           ELSE <<"#">> \o cleanedHash.v

NoTrackingKey(params) == \A param \in Range(params) : ~MatchesTable(param.key)

SameUrlButHash(res, url) ==
  /\ origin(CleanedUrlOf(res)) = origin(url)
  /\ pathname(CleanedUrlOf(res)) = pathname(url)
  /\ CleanedParamsOf(res) = URLSearchParams(search(url))
  /\ hash(CleanedUrlOf(res)) = ExpectedHash(hash(url))

C4_CleanInputUnchanged ==
  (Called /\ InputIsString /\ InputUrl.ok /\ NoTrackingKey(InputParams)) =>
    IF result.success
    THEN /\ result.removedCount = 0
         /\ ~result.hasChanges
         /\ SameUrlButHash(result, InputUrl)
    ELSE FALSE

\* C5: for every valid URL on which cleanUrl succeeds, cleaning the result
\* again succeeds and removes nothing.
C5_Idempotent ==
  pc = "recleaned" => (again.success /\ again.removedCount = 0)

\* C6: every result of cleanUrl is internally consistent: originalUrl is
\* the verbatim input and removedCount = length of removedParams; on
\* success error is null, cleanedUrl is a string that reparses as a URL and
\* hasChanges = (removedCount > 0); on failure cleanedUrl is null, error is
\* a string, removedParams is empty and removedCount is 0.
ConsistentResult(arg, res) ==
  /\ res.originalUrl = arg
  /\ res.removedCount = Len(res.removedParams)
  /\ res.success =>
       /\ res.error = JsNull
       /\ res.cleanedUrl.t = "string"
       /\ CleanedUrlOf(res).ok
       /\ res.hasChanges = (res.removedCount > 0)
  /\ ~res.success =>
       /\ res.cleanedUrl = JsNull
       /\ res.error.t = "string"
       /\ res.removedParams = <<>>
       /\ res.removedCount = 0

C6_ResultConsistent ==
  /\ Called => ConsistentResult(input, result)
  /\ pc = "recleaned" => ConsistentResult(result.cleanedUrl, again)

\* A call that removed parameters, followed by one that found none.
C6_Witness ==
  /\ pc = "recleaned"
  /\ result.success /\ result.hasChanges
  /\ again.success /\ ~again.hasChanges

\* C7: cleanUrl returns a result for every input, and the error names the
\* cause: the non-empty-string message exactly when the input is null,
\* undefined, empty or not a string; the not-properly-formatted message
\* exactly when the input is a non-empty string whose trimmed form fails
\* isValidUrl; and "URL processing error: " plus a detail in every other
\* failure, which is one after validation passed.
MustBeString == JsString("Invalid URL: URL must be a non-empty string")

NotFormatted == JsString("Invalid URL: Not a properly formatted URL")

ProcessingPrefix == S("URL processing error: ")

C7_ErrorNamesCause ==
  Called =>
    /\ result.success \in BOOLEAN
    /\ result.success <=> (result.error = JsNull)
    /\ result.error = MustBeString <=> (~InputIsString \/ input.v = "")
    /\ result.error = NotFormatted <=>
         (InputIsString /\ input.v # "" /\ ~isValidUrl(trim(S(input.v))))
    /\ (~result.success /\ result.error \notin {MustBeString, NotFormatted}) =>
         /\ startsWith(S(result.error.v), ProcessingPrefix)
         /\ Len(S(result.error.v)) > Len(ProcessingPrefix)
         /\ InputIsString /\ isValidUrl(trim(S(input.v)))

\* A whitespace-only string is reported as not properly formatted.
C7_Witness ==
  /\ pc = "cleaned"
  /\ InputIsString /\ input.v # "" /\ trim(S(input.v)) = <<>>
  /\ result.error = NotFormatted

\* C8: every string whose trimmed form isValidUrl accepts is processed the
\* same way whatever its scheme: success = true, a non-null cleanedUrl,
\* and no tracking query parameter left in it.
C8_SchemeAgnostic ==
  (Called /\ InputIsString /\ isValidUrl(trim(S(input.v)))) =>
    IF result.success
    THEN /\ result.cleanedUrl.t = "string"
         /\ NoTrackingKey(CleanedParamsOf(result))
         /\ ParamStrings(CleanedParamsOf(result))
              = ParamStrings(SelectSeq(InputParams, LAMBDA param : ~MatchesTable(param.key)))
    ELSE FALSE

\* C9: whenever cleanUrl succeeds, savedBytes is the length of the
\* verbatim, untrimmed originalUrl minus the length of cleanedUrl.
SavedBytesConsistent(arg, res) ==
  res.success => res.savedBytes = Len(arg.v) - Len(res.cleanedUrl.v)

C9_SavedBytes ==
  /\ Called => SavedBytesConsistent(input, result)
  /\ pc = "recleaned" => SavedBytesConsistent(result.cleanedUrl, again)

\* An input with a space around it that the cleaning does not shorten.
C9_Witness ==
  /\ pc = "cleaned"
  /\ result.success
  /\ trim(S(input.v)) # S(input.v)
  /\ result.savedBytes <= 0

\* C10: for every valid URL whose fragment is a pure anchor (no "=" in its
\* content, and not a tracking query string), cleanUrl neither alters nor
\* removes the fragment: cleanedUrl carries the identical fragment, and
\* cleanHashFragment returns its input unchanged.
InputFragment == DropFirst(hash(InputUrl), 1)

IsTrackingQueryString(content) ==
  /\ decodeURIComponent(content).ok
  /\ ~NoTrackingKey(URLSearchParams(decodeURIComponent(content).v))

PureAnchor(content) ==
  /\ content # <<>>
  /\ "=" \notin Range(content)
  /\ ~IsTrackingQueryString(content)

FragmentKept ==
  /\ cleanHashFragment(InputFragment) = KeepHash(InputFragment)
  /\ IF result.success
     THEN hash(CleanedUrlOf(result)) = hash(InputUrl)
     ELSE FALSE

C10_PureAnchorKept ==
  (Called /\ InputIsString /\ InputUrl.ok /\ PureAnchor(InputFragment)) => FragmentKept

\* C10, amended: for every valid URL whose fragment is a pure anchor that
\* carries none of the malformed-tracking signatures (the substrings
\* Vite%20RSC, Next.js or TypeScript, or leading digits and a colon, raw
\* or decoded), cleanHashFragment returns the content unchanged, and
\* whenever cleanUrl succeeds cleanedUrl carries the identical fragment.
HasTrackingSignature(content) ==
  \/ \E sig \in {S("Vite%20RSC"), S("Next.js"), S("TypeScript")} : includes(content, sig)
  \/ LET decoded == PercentDecode(content)
     IN  \E text \in {content, decoded} :
           \E n \in 1..Len(text) :
             /\ Len(text) > n
             /\ text[n + 1] = ":"
             /\ Range(SubSeq(text, 1, n)) \subseteq Digits

C10_PlainAnchorKept ==
  (Called /\ InputIsString /\ InputUrl.ok
     /\ PureAnchor(InputFragment) /\ ~HasTrackingSignature(InputFragment)) =>
    /\ cleanHashFragment(InputFragment) = KeepHash(InputFragment)
    /\ result.success => hash(CleanedUrlOf(result)) = hash(InputUrl)

\* An anchor with an escape in it, or with a digit and a colon inside,
\* after a successful call.
C10_Witness ==
  /\ pc = "cleaned"
  /\ result.success
  /\ InputIsString /\ InputUrl.ok
  /\ PureAnchor(InputFragment) /\ ~HasTrackingSignature(InputFragment)
  /\ \E c \in {"%", ":"} : c \in Range(InputFragment)

----------------------------------------------------------------------------
(* cleanHashFragment                                                       *)

Hashed == pc = "hashed"

\* A "%" that two hexadecimal digits do not follow.
HasMalformedEscape(content) ==
  \E i \in 1..Len(content) :
    /\ content[i] = "%"
    /\ ~(i + 2 <= Len(content) /\ content[i + 1] \in HexDigits /\ content[i + 2] \in HexDigits)

\* The decoded content starts with "/".
IsSpaRoute(content) ==
  /\ content # <<>>
  /\ ~HasMalformedEscape(content)
  /\ \/ content[1] = "/"
     \/ Len(content) >= 3 /\ toLowerCase(SubSeq(content, 1, 3)) = S("%2f")

\* The decoded content matches ^[a-zA-Z0-9_-]+\?
IsHashRoute(content) ==
  LET decoded == PercentDecode(content)
  IN  \E n \in 1..Len(decoded) :
        /\ Len(decoded) > n
        /\ decoded[n + 1] = "?"
        /\ Range(SubSeq(decoded, 1, n)) \subseteq (AlphaNum \cup {"_", "-"})

\* The content gets as far as being parsed as a query string.
ParsedAsQuery(content) ==
  /\ content # <<>>
  /\ ~HasMalformedEscape(content)
  /\ ~IsSpaRoute(content)
  /\ ~HasTrackingSignature(content)
  /\ ~IsHashRoute(content)
  /\ "=" \in Range(PercentDecode(content))

\* The pairs of the decoded content, and the ones whose key is not in the
\* table.
HashPairs(content) == URLSearchParams(PercentDecode(content))

KeptHashPairs(content) ==
  SelectSeq(HashPairs(content), LAMBDA param : ~MatchesTable(param.key))

HasTrackingPair(content) == ~NoTrackingKey(HashPairs(content))

\* What is left of a filtered content: nothing when no pair remains, else
\* a string that parses to exactly the kept pairs.
IsFilteredForm(value, content) ==
  IF KeptHashPairs(content) = <<>>
  THEN value = JsNull
  ELSE value.t = "string" /\ URLSearchParams(S(value.v)) = KeptHashPairs(content)

\* C11: when the decoded fragment is parsed as a query string and some key
\* matches the table, cleanHashFragment returns a query string of exactly
\* the non-matching pairs in their order, or null when none remains; in a
\* successful cleanUrl the fragment of cleanedUrl is that string, and a
\* fragment made only of tracking pairs is gone together with its "#".
C11_HashFiltered ==
  /\ (Hashed /\ ParsedAsQuery(S(input.v)) /\ HasTrackingPair(S(input.v))) =>
       IsFilteredForm(returnedHash, S(input.v))
  /\ (Called /\ result.success /\ InputIsString /\ InputUrl.ok
        /\ ParsedAsQuery(InputFragment) /\ HasTrackingPair(InputFragment)) =>
       IF KeptHashPairs(InputFragment) = <<>>
       THEN "#" \notin Range(S(result.cleanedUrl.v))
       ELSE URLSearchParams(DropFirst(hash(CleanedUrlOf(result)), 1))
              = KeptHashPairs(InputFragment)

\* Several pairs are kept around a removed one.
C11_Witness ==
  /\ Hashed
  /\ ParsedAsQuery(S(input.v)) /\ HasTrackingPair(S(input.v))
  /\ Len(KeptHashPairs(S(input.v))) >= 2
  /\ returnedHash.t = "string"

C13_SpaRouteKept ==
  /\ (Hashed /\ IsSpaRoute(S(input.v))) => returnedHash = input
  /\ (Called /\ result.success /\ InputIsString /\ InputUrl.ok
        /\ IsSpaRoute(InputFragment)) =>
       /\ hash(CleanedUrlOf(result)) = hash(InputUrl)
       /\ result.removedCount
            = Len(SelectSeq(InputParams, LAMBDA param : MatchesTable(param.key)))

\* A route with an encoded "/" and a tracking key, or with a signature.
C13_Witness ==
  /\ pc = "cleaned"
  /\ result.success
  /\ InputIsString /\ InputUrl.ok /\ IsSpaRoute(InputFragment)
  /\ \/ HasTrackingSignature(InputFragment)
     \/ "%" \in Range(InputFragment) /\ includes(InputFragment, S("utm_source"))

\* C14: removedParams and removedCount list the parameters removed from
\* the query string only: a successful result for a URL whose tracking
\* keys are all in the fragment has removedCount = 0 and hasChanges =
\* false, although cleanedUrl's fragment differs from the input's.
C14_FragmentKeysNotReported ==
  (Called /\ result.success /\ InputIsString) =>
    /\ result.removedParams
         = ParamStrings(SelectSeq(InputParams, LAMBDA param : MatchesTable(param.key)))
    /\ result.removedCount = Len(result.removedParams)
    /\ result.hasChanges = (result.removedParams # <<>>)
    /\ NoTrackingKey(InputParams) => (result.removedCount = 0 /\ ~result.hasChanges)

\* The fragment lost a tracking pair and nothing is reported.
C14_Witness ==
  /\ pc = "cleaned"
  /\ result.success
  /\ InputIsString /\ InputUrl.ok
  /\ ParsedAsQuery(InputFragment) /\ HasTrackingPair(InputFragment)
  /\ hash(CleanedUrlOf(result)) # hash(InputUrl)
  /\ result.removedCount = 0 /\ ~result.hasChanges

\* C15: cleanHashFragment returns null or a string for every string, and
\* returns the content unchanged when it holds a malformed escape.
C15_HashNeverThrows ==
  Hashed =>
    /\ returnedHash = JsNull \/ returnedHash.t = "string"
    /\ HasMalformedEscape(S(input.v)) => returnedHash = input

\* An undecodable content that names a tracking key.
C15_Witness ==
  /\ Hashed
  /\ HasMalformedEscape(S(input.v))
  /\ includes(S(input.v), S("utm_source"))
  /\ returnedHash = input

----------------------------------------------------------------------------
(* analyzeUrl                                                              *)

Analyzed == pc = "analyzed"

CategoryNames == {"utm", "social", "ads", "affiliate", "email", "analytics"}

HasShape(res) == {"categories", "summary"} \subseteq DOMAIN res

CountEntry(entries, entry) == Cardinality({i \in 1..Len(entries) : entries[i] = entry})

\* The categories whose array holds the entry.
HoldersOf(res, entry) ==
  {c \in CategoryNames : entry \in Range(res.categories[c])}

SumOfCounts(summary) ==
  summary.utm + summary.social + summary.ads
    + summary.affiliate + summary.email + summary.analytics

\* C16: on every successful result of analyzeUrl each removed parameter is
\* in exactly one of the six category arrays, as often as in
\* removedParams; no array holds anything else; each summary count is the
\* length of its array; and the six counts sum to removedCount.
C16_CategoriesPartition ==
  (Analyzed /\ analysis.success) =>
    /\ HasShape(analysis)
    /\ DOMAIN analysis.categories = CategoryNames
    /\ DOMAIN analysis.summary = CategoryNames
    /\ \A entry \in Range(analysis.removedParams) :
         /\ Cardinality(HoldersOf(analysis, entry)) = 1
         /\ \A c \in HoldersOf(analysis, entry) :
              CountEntry(analysis.categories[c], entry)
                = CountEntry(analysis.removedParams, entry)
    /\ \A c \in CategoryNames :
         /\ Range(analysis.categories[c]) \subseteq Range(analysis.removedParams)
         /\ analysis.summary[c] = Len(analysis.categories[c])
    /\ SumOfCounts(analysis.summary) = analysis.removedCount

\* Three removed parameters spread over at least two categories.
C16_Witness ==
  /\ Analyzed
  /\ analysis.success
  /\ analysis.removedCount = 3
  /\ Cardinality({c \in CategoryNames : analysis.categories[c] # <<>>}) >= 2

\* The first rule, in the stated order, that a lowercased key matches.
FirstRule(lower) ==
  CASE startsWith(lower, S("utm_")) -> "utm"
    [] ~startsWith(lower, S("utm_")) /\ lower \in SocialKeys -> "social"
    [] ~startsWith(lower, S("utm_")) /\ lower \notin SocialKeys /\ lower \in AdsKeys -> "ads"
    [] ~startsWith(lower, S("utm_")) /\ lower \notin SocialKeys \cup AdsKeys
         /\ lower \in AffiliateKeys -> "affiliate"
    [] ~startsWith(lower, S("utm_")) /\ lower \notin SocialKeys \cup AdsKeys \cup AffiliateKeys
         /\ lower \in EmailKeys -> "email"
    [] OTHER -> "analytics"

AdPlatformKeys ==
  {S("gclid"), S("yclid"), S("dclid"), S("msclkid"), S("gad_source"),
   S("gad_campaignid"), S("gbraid"), S("utm_ad"), S("matchtype"),
   S("campaign_id"), S("ad_id")}

C18_AdKeysAreAds ==
  (Analyzed /\ analysis.success /\ HasShape(analysis)) =>
    /\ \A entry \in Range(analysis.removedParams) :
         toLowerCase(S(entry.key)) \in AdPlatformKeys =>
           entry \in Range(analysis.categories.ads)
    /\ analysis.summary.ads
         = Cardinality({i \in 1..Len(analysis.removedParams) :
                          toLowerCase(S(analysis.removedParams[i].key)) \in AdPlatformKeys})

\* C19: analyzeUrl returns a result with categories and summary for every
\* input, and when cleanUrl fails it is that failure result (success =
\* false, cleanedUrl null, error set) with six empty arrays and six zero
\* counts.
C19_FailureKeepsShape ==
  Analyzed =>
    /\ HasShape(analysis)
    /\ DOMAIN analysis.categories = CategoryNames
    /\ DOMAIN analysis.summary = CategoryNames
    /\ ~cleanUrl(input).success =>
         /\ \A field \in DOMAIN cleanUrl(input) : analysis[field] = cleanUrl(input)[field]
         /\ ~analysis.success
         /\ analysis.cleanedUrl = JsNull
         /\ analysis.error.t = "string"
         /\ \A c \in CategoryNames :
              analysis.categories[c] = <<>> /\ analysis.summary[c] = 0

\* A failed analysis, of a value that is no string and of a valid URL.
C19_Witness ==
  /\ Analyzed
  /\ ~analysis.success
  /\ \/ input = JsNull
     \/ InputIsString /\ InputUrl.ok

----------------------------------------------------------------------------
(* cleanUrls                                                               *)

Batched == pc = "batched"

\* C20: for every array urls, cleanUrls(urls) is an array of the same
\* length whose i-th element is cleanUrl(urls[i]); a failing element gives
\* a failure result at its place and the other results stay where they
\* are; the empty array gives the empty array.
C20_BatchIsMap ==
  Batched =>
    /\ Len(results) = Len(urls)
    /\ \A i \in 1..Len(urls) : results[i] = cleanUrl(urls[i])
    /\ \A i \in 1..Len(urls) :
         (urls[i].t # "string" \/ urls[i].v = "" \/ ~isValidUrl(trim(S(urls[i].v)))) =>
           (~results[i].success /\ results[i].originalUrl = urls[i])
    /\ urls = <<>> => results = <<>>

\* A failing element in front of one that is cleaned.
C20_Witness ==
  /\ Batched
  /\ Len(urls) >= 2
  /\ ~results[1].success
  /\ results[Len(urls)].success /\ results[Len(urls)].removedCount > 0

\* C21: cleanUrls given any value that is no array throws an error with the
\* message 'Input must be an array of URLs' and returns no result; every
\* other call, and cleanUrls given an array, returns a value and throws
\* nothing.
C21_NonArrayThrows ==
  /\ pc \in {"threw", "batched"} /\ input.t # "array" =>
       /\ pc = "threw"
       /\ thrown = "Input must be an array of URLs"
       /\ results = <<>>
  /\ pc # "threw" => thrown = ""
  /\ pc = "batched" => input.t = "array" /\ Len(results) = Len(urls)
  /\ pc = "cleaned" => result # NoResult
  /\ pc = "analyzed" => analysis # NoResult
  /\ pc = "hashed" => returnedHash # JsUndefined
  /\ pc = "validated" => valid \in BOOLEAN

C21_Witness ==
  /\ pc = "threw"
  /\ input = JsString("not-a-url")
  /\ thrown = "Input must be an array of URLs"

Validated == pc = "validated"

\* The string isValidUrl is given, without the spaces around it.
ValidatedText == trim(S(JsToString(input)))

\* "<scheme>:" at the start: a letter, then letters, digits, "+", "-", ".".
SchemeLength(cs) ==
  IF \E n \in 1..Len(cs) : cs[n] = ":"
  THEN (CHOOSE n \in 1..Len(cs) : cs[n] = ":" /\ \A i \in 1..(n - 1) : cs[i] # ":") - 1
  ELSE 0

HasScheme(cs) ==
  /\ SchemeLength(cs) > 0
  /\ cs[1] \in Alpha
  /\ \A i \in 2..SchemeLength(cs) : cs[i] \in AlphaNum \cup {"+", "-", "."}

SchemeOf(cs) == toLowerCase(SubSeq(cs, 1, SchemeLength(cs)))

\* C22: isValidUrl never throws and returns true if and only if its argument
\* parses as an absolute URL with a scheme: false for the empty string, null,
\* undefined, a protocol-relative string and a bare host, true for https://,
\* http:// and ftp:// URLs.
C22_ValidIffAbsoluteUrl ==
  Validated =>
    /\ thrown = ""
    /\ valid <=> ParseURL(S(JsToString(input))).ok
    /\ valid => HasScheme(ValidatedText)
    /\ HasScheme(ValidatedText) /\ SchemeOf(ValidatedText) \notin SpecialSchemes
         => valid
    /\ input \in {JsString(""), JsNull, JsUndefined, JsString("//a.b"),
                  JsString("a.b"), JsString("not-a-url"), JsNumber("123")}
         => ~valid
    /\ (/\ HasScheme(ValidatedText)
        /\ SchemeOf(ValidatedText) \in {S("https"), S("http"), S("ftp")}
        /\ startsWith(DropFirst(ValidatedText, SchemeLength(ValidatedText)),
                      S("://a.b")))
         => valid

C22_Witness ==
  /\ Validated
  /\ valid
  /\ input = JsString("http://a.b:3000/p?utm_source=g")

Padded == pc = "padded"

\* C23: surrounding whitespace does not change what cleanUrl computes:
\* cleanUrl(w1 + u + w2) has the same success, cleanedUrl, removedParams and
\* removedCount as cleanUrl(u), and its originalUrl is the untrimmed
\* w1 + u + w2.
C23_WhitespaceIgnored ==
  Padded =>
    /\ \E w \in Paddings : paddedInput = w[1] \o input.v \o w[2]
    /\ padded.success = result.success
    /\ padded.cleanedUrl = result.cleanedUrl
    /\ padded.removedParams = result.removedParams
    /\ padded.removedCount = result.removedCount
    /\ padded.originalUrl = JsString(paddedInput)

\* A URL with a tracking parameter, given with two spaces after it.
C23_Witness ==
  /\ Padded
  /\ input = JsString("https://a.b/p?utm_source=g&a=1#top")
  /\ paddedInput = "https://a.b/p?utm_source=g&a=1#top  "
  /\ padded.success
  /\ padded.removedCount = 1

Repeated == pc = "repeated"

\* The fields of cleanUrl's result, read off analyzeUrl's.
CleanFieldsOf(res, like) == [f \in DOMAIN like |-> res[f]]

InputIsSerialized ==
  /\ InputUrl.ok
  /\ Str(href(InputUrl)) = input.v
  /\ URLSearchParams_toString(InputParams) = DropFirst(search(InputUrl), 1)

\* The fragment of the cleaned URL is no longer than the input's.
FragmentNotLonger(res) == Len(hash(CleanedUrlOf(res))) <= Len(hash(InputUrl))

C27_AnyHashRouteKept ==
  /\ (Hashed /\ ~HasMalformedEscape(S(input.v)) /\ IsHashRoute(S(input.v)))
       => returnedHash = input
  /\ (Called /\ result.success /\ InputIsString /\ InputUrl.ok
        /\ ~HasMalformedEscape(InputFragment) /\ IsHashRoute(InputFragment))
       => hash(CleanedUrlOf(result)) = hash(InputUrl)

\* C27: every fragment whose decoded content matches ^[a-zA-Z0-9_-]+\? and
\* that holds none of the substrings Vite%20RSC, Next.js and TypeScript is
\* returned by cleanHashFragment as the original undecoded content, whatever
\* tracking keys follow the "?", and a successful cleanUrl keeps it verbatim.
C27_HashRouteKept ==
  /\ (Hashed /\ ~HasMalformedEscape(S(input.v)) /\ IsHashRoute(S(input.v))
        /\ ~HasTrackingSignature(S(input.v)))
       => returnedHash = input
  /\ (Called /\ result.success /\ InputIsString /\ InputUrl.ok
        /\ ~HasMalformedEscape(InputFragment) /\ IsHashRoute(InputFragment)
        /\ ~HasTrackingSignature(InputFragment))
       => hash(CleanedUrlOf(result)) = hash(InputUrl)

\* A hash route with a tracking key after the "?", its "?" escaped or not,
\* after a successful call.
C27_Witness ==
  /\ pc = "cleaned"
  /\ result.success
  /\ InputIsString /\ InputUrl.ok
  /\ IsHashRoute(InputFragment)
  /\ includes(InputFragment, S("utm_source"))
  /\ hash(CleanedUrlOf(result)) = hash(InputUrl)

\* No key of the decoded content, read as a query string, is in the table.
HasNoTrackingKey(content) == NoTrackingKey(URLSearchParams(PercentDecode(content)))

\* C28 as claimed: a fragment that does not decode to an SPA route and that
\* carries a malformed-tracking signature makes cleanHashFragment return
\* null and cleanUrl emit no fragment, and no other fragment without a
\* tracking key is turned into null.
C28_AnySignatureNulled ==
  /\ (Hashed /\ ~IsSpaRoute(S(input.v)) /\ HasTrackingSignature(S(input.v)))
       => returnedHash = JsNull
  /\ (Hashed /\ returnedHash = JsNull /\ HasNoTrackingKey(S(input.v)))
       => HasTrackingSignature(S(input.v))

\* C28: a non-empty fragment that decodes, not to an SPA route, and that
\* holds the substring Vite%20RSC, Next.js or TypeScript, or starts, raw or
\* decoded, with digits and ":", makes cleanHashFragment return null and a
\* successful cleanUrl emit a cleanedUrl without fragment; no other non-empty
\* fragment without a tracking key is turned into null.
C28_SignatureNulled ==
  /\ (Hashed /\ input.v # "" /\ ~HasMalformedEscape(S(input.v))
        /\ ~IsSpaRoute(S(input.v)) /\ HasTrackingSignature(S(input.v)))
       => returnedHash = JsNull
  /\ (Hashed /\ input.v # "" /\ returnedHash = JsNull
        /\ HasNoTrackingKey(S(input.v)))
       => /\ ~HasMalformedEscape(S(input.v))
          /\ ~IsSpaRoute(S(input.v))
          /\ HasTrackingSignature(S(input.v))
  /\ (Called /\ result.success /\ InputIsString /\ InputUrl.ok
        /\ InputFragment # <<>>)
       => /\ (/\ ~HasMalformedEscape(InputFragment)
              /\ ~IsSpaRoute(InputFragment)
              /\ HasTrackingSignature(InputFragment))
            => hash(CleanedUrlOf(result)) = <<>>
          /\ (hash(CleanedUrlOf(result)) = <<>> /\ HasNoTrackingKey(InputFragment))
            => HasTrackingSignature(InputFragment)

\* The content "1%3Ax", which starts with digits and ":" only once decoded.
C28_Witness ==
  /\ Hashed
  /\ input = JsString("1%3Ax")
  /\ ~StartsWithDigitsColon(S(input.v))
  /\ HasTrackingSignature(S(input.v))
  /\ returnedHash = JsNull

\* The keys the analytics category is documented with.
AnalyticsKeys ==
  {S("sthash"), S("source"), S("campaign"), S("adgroup"), S("adposition"),
   S("_bhlid")}

\* C29: the analytics category is a true remainder: every entry of the
\* Tracking Pattern Table outside {sthash, source, campaign, adgroup,
\* adposition, _bhlid} is matched by one of the first five classification
\* rules, so every entry of categories.analytics has a lowercased key in
\* that set.
C29_AnalyticsIsRemainder ==
  /\ \A i \in 1..Len(patterns) :
       CategoryOfLower(toLowerCase(patterns[i])) = "analytics"
         => toLowerCase(patterns[i]) \in AnalyticsKeys
  /\ (Analyzed /\ analysis.success /\ HasShape(analysis)) =>
       /\ \A entry \in Range(analysis.categories.analytics) :
            toLowerCase(S(entry.key)) \in AnalyticsKeys
       /\ \A entry \in Range(analysis.removedParams) :
            toLowerCase(S(entry.key)) \in AnalyticsKeys
              => entry \in Range(analysis.categories.analytics)

\* source and _BHLID removed and both put in analytics.
C29_Witness ==
  /\ Analyzed
  /\ analysis.success
  /\ {entry.key : entry \in Range(analysis.categories.analytics)}
       = {"source", "_BHLID"}

----------------------------------------------------------------------------
(* The background service worker                                           *)

\* C25: the extension never stores user data: after any sequence of
\* extension events no URL, cleaned URL or removed parameter has been written
\* to storage.
C25_NothingStored == storage = EmptyStorage

\* No handler is suspended and no 'complete' event is still to come.
Quiescent == pending = {} /\ loading = {}

\* The tracking parameters of a page's query string.
TrackingCount(url) ==
  Len(SelectSeq(URLSearchParams(search(ParseURL(S(url)))),
                LAMBDA param : MatchesTable(param.key)))

IsWebPage(url) == startsWith(S(url), S("http://")) \/ startsWith(S(url), S("https://"))

ExpectedBadge(url) ==
  IF ~IsWebPage(url) \/ TrackingCount(url) = 0 THEN ""
  ELSE IF TrackingCount(url) > 99 THEN "99+"
  ELSE ToString(TrackingCount(url))

\* C30: once all pending badge handlers have finished, every tab's badge
\* reflects that tab's most recent URL: empty text when the URL is not
\* http(s) or has no tracking parameters, otherwise the removed-parameter
\* count, under any interleaving of handleTabUpdate, handleTabActivation and
\* updateAllTabBadges.
C30_BadgeFollowsUrl ==
  Quiescent => \A t \in Tabs : badgeText[t] = ExpectedBadge(tabUrl[t])

====
